---- MODULE Spec2Model ----
(***************************************************************************)
(* stupdedup (src/src/main.rs): duplicate finder.                         *)
(*   dedup_name_size : concurrent name/size classification                *)
(*   check_hashes    : concurrent hash verification with a reporter thread*)
(*   main            : pruning of empty groups and deletion               *)
(* Names are sequences of one-character strings; lengths are byte lengths *)
(* of ASCII names.  Console output (print, print_reassigns, dbg!) changes *)
(* no state and is left out.  The disk does not change while check_hashes *)
(* runs.                                                                  *)
(***************************************************************************)
EXTENDS Integers, Sequences, FiniteSets, TLC

(* ------------------------------ bounds -------------------------------- *)
MaxSize == 2
MaxFiles == 3
MaxDups == 2
MaxNameLen == 5

\* the display names of the model: two normalized names, "p" and "q"
Names ==
  { <<"p">>,
    <<"p", " ", "2">>,
    <<"p", " ", "3">>,
    <<"p", " ", "(", "1", ")">>,
    <<"q">>,
    <<"q", " ", "2">> }

NoOne == {}

(* ------------------------- get_undestroyed_name ----------------------- *)
ends_with(s, suf) ==
  /\ Len(s) >= Len(suf)
  /\ SubSeq(s, Len(s) - Len(suf) + 1, Len(s)) = suf

split_at_0(s, mid) == SubSeq(s, 1, mid)

RECURSIVE get_undestroyed_name_repeated(_)
get_undestroyed_name_repeated(name) ==
  IF \/ ends_with(name, <<" ", "2">>)
     \/ ends_with(name, <<" ", "3">>)
     \/ ends_with(name, <<" ", "4">>)
  THEN get_undestroyed_name_repeated(split_at_0(name, Len(name) - 2))
  ELSE IF \/ ends_with(name, <<" ", "(", "1", ")">>)
          \/ ends_with(name, <<" ", "(", "2", ")">>)
          \/ ends_with(name, <<" ", "(", "3", ")">>)
       THEN get_undestroyed_name_repeated(split_at_0(name, Len(name) - 4))
       ELSE name

\* lines 224-232
get_undestroyed_name(name) ==
  IF \/ ends_with(name, <<" ", "2">>)
     \/ ends_with(name, <<" ", "3">>)
     \/ ends_with(name, <<" ", "4">>)
  THEN split_at_0(name, Len(name) - 2)
  ELSE IF \/ ends_with(name, <<" ", "(", "1", ")">>)
          \/ ends_with(name, <<" ", "(", "2", ")">>)
          \/ ends_with(name, <<" ", "(", "3", ")">>)
       THEN split_at_0(name, Len(name) - 4)
       ELSE name

(* ------------------------------ FileInfo ------------------------------ *)
\* one record per file of the scanned directory; the path determines the file
FileInfo(name, size) ==
  [ name |-> name,
    name_undup |-> get_undestroyed_name(name),
    path |-> <<"/">> \o name,
    size |-> size ]

\* every record the collector can produce within the bounds
read_fileinfos ==
  { FileInfo(n, s) : n \in Names, s \in 1..MaxSize }

\* the sets of records of one directory tree: paths are unique
FileSets ==
  { S \in SUBSET read_fileinfos :
      /\ Cardinality(S) <= MaxFiles
      /\ \A a, b \in S : a.path = b.path => a = b }

VARIABLES
  files,            \* main: the collected records
  undup_name_map,   \* dedup_name_size: name_undup -> current original
  duplicates,       \* dedup_name_size: the duplicates set
  map_lock,         \* holder of the undup_name_map mutex
  dup_lock,         \* holder of the duplicates mutex
  pc,               \* position of the worker closure of each record
  main_pc,          \* position of the main thread
  args,             \* main: the parsed flags nohash and delete
  fs,               \* the disk: path -> result of fs::read
  filtered,         \* main: original -> list of duplicates (check_hashes: dupmap)
  dupmap0,          \* check_hashes: the value of dupmap at entry
  calls,            \* number of calls of check_hashes so far
  count,            \* check_hashes: the shared false-duplicate counter
  count_lock,       \* holder of the count mutex
  chan,             \* check_hashes: the events sent and not yet received
  send_alive,       \* check_hashes: the Sender has not been dropped
  wpc,              \* position of the hashing closure of each group
  widx,             \* retain: index of the next duplicate to check, per group
  orig_hash,        \* orig_hash of each group once the original was read
  rpc,              \* position of the reporting thread
  processed,        \* reporting thread: its counter
  discarded,        \* main: the value returned by check_hashes
  removed,          \* the paths passed to remove_file
  lock_order,       \* the records in the order their closures locked the map
  arg_name,         \* get_undestroyed_name: the argument of the call
  ret_name          \* get_undestroyed_name: the value returned, once called

dedup_vars == <<files, undup_name_map, duplicates, map_lock, dup_lock, pc>>

hash_vars ==
  <<args, fs, filtered, dupmap0, calls, count, count_lock, chan, send_alive,
    wpc, widx, orig_hash, rpc, processed, discarded, removed>>

name_vars == <<arg_name, ret_name>>

aux_vars == <<lock_order, arg_name, ret_name>>

vars == <<dedup_vars, main_pc, hash_vars, aux_vars>>

\* no call of get_undestroyed_name is under observation
NameIdle == arg_name = << >> /\ ret_name = << >>

\* the hashing stage has not started
HashIdle ==
  /\ args = [nohash |-> FALSE, delete |-> FALSE]
  /\ fs = << >>
  /\ filtered = << >>
  /\ dupmap0 = << >>
  /\ calls = 0
  /\ count = 0
  /\ count_lock = NoOne
  /\ chan = << >>
  /\ send_alive = FALSE
  /\ wpc = << >>
  /\ widx = << >>
  /\ orig_hash = << >>
  /\ rpc = "unspawned"
  /\ processed = 0
  /\ discarded = 0
  /\ removed = {}

(* --------------------------- dedup_name_size -------------------------- *)
MapInsert(m, k, v) == [ x \in DOMAIN m \cup {k} |-> IF x = k THEN v ELSE m[x] ]

MapValues(m) == { m[k] : k \in DOMAIN m }

InitDedup ==
  /\ files \in FileSets
  /\ undup_name_map = << >>
  /\ duplicates = {}
  /\ map_lock = NoOne
  /\ dup_lock = NoOne
  /\ pc = [ f \in files |-> "lock_map" ]
  /\ main_pc = "dedup_name_size"
  /\ HashIdle
  /\ lock_order = << >>
  /\ NameIdle

\* line 131: undup_name_map.lock()
LockMap(f) ==
  /\ main_pc = "dedup_name_size"
  /\ pc[f] = "lock_map"
  /\ map_lock = NoOne
  /\ map_lock' = {f}
  /\ pc' = [pc EXCEPT ![f] = "match"]
  /\ lock_order' = Append(lock_order, f)
  /\ UNCHANGED <<files, undup_name_map, duplicates, dup_lock, main_pc>>
  /\ UNCHANGED <<hash_vars, name_vars>>

IsLonger(f, existing_entry) == Len(f.name) > Len(existing_entry.name)

\* line 142: fileinfo.name.len() < existing_entry.name.len()
IsShorter(f, existing_entry) == Len(f.name) < Len(existing_entry.name)

SizeNeverDiffers(f, existing_entry) == FALSE

\* line 138: existing_entry.size != fileinfo.size
SizeDiffers(f, existing_entry) == existing_entry.size # f.size

on_size_mismatch_overwrites(m, f) == MapInsert(m, f.name_undup, f)

\* line 138: the arm is (), the map stays as it is
on_size_mismatch(m, f) == m

\* lines 133-142, 155-157: the match on the existing entry
Match(f) ==
  /\ pc[f] = "match"
  /\ map_lock = {f}
  /\ IF f.name_undup \notin DOMAIN undup_name_map
     THEN /\ undup_name_map' = MapInsert(undup_name_map, f.name_undup, f)
          /\ map_lock' = NoOne
          /\ pc' = [pc EXCEPT ![f] = "done"]
     ELSE IF SizeDiffers(f, undup_name_map[f.name_undup])
     THEN /\ map_lock' = NoOne
          /\ pc' = [pc EXCEPT ![f] = "done"]
          /\ undup_name_map' = on_size_mismatch(undup_name_map, f)
     ELSE IF IsShorter(f, undup_name_map[f.name_undup])
     THEN /\ pc' = [pc EXCEPT ![f] = "promote_lock"]
          /\ UNCHANGED <<undup_name_map, map_lock>>
     ELSE /\ map_lock' = NoOne
          /\ pc' = [pc EXCEPT ![f] = "dup_lock"]
          /\ UNCHANGED undup_name_map
  /\ UNCHANGED <<files, duplicates, dup_lock, main_pc>>
  /\ UNCHANGED <<hash_vars, aux_vars>>

\* line 144: duplicates.lock() while the map lock is held
PromoteLock(f) ==
  /\ pc[f] = "promote_lock"
  /\ map_lock = {f}
  /\ dup_lock = NoOne
  /\ dup_lock' = {f}
  /\ pc' = [pc EXCEPT ![f] = "promote"]
  /\ UNCHANGED <<files, undup_name_map, duplicates, map_lock, main_pc>>
  /\ UNCHANGED <<hash_vars, aux_vars>>

Promote_keeps_old(f) ==
  /\ pc[f] = "promote"
  /\ map_lock = {f}
  /\ dup_lock = {f}
  /\ duplicates' = duplicates \cup { undup_name_map[f.name_undup] }
  /\ map_lock' = NoOne
  /\ pc' = [pc EXCEPT ![f] = "promote_remove"]
  /\ UNCHANGED <<files, undup_name_map, dup_lock, main_pc>>
  /\ UNCHANGED <<hash_vars, aux_vars>>

\* lines 145-153: demote the existing original, install f, drop the map lock
Promote(f) ==
  /\ pc[f] = "promote"
  /\ map_lock = {f}
  /\ dup_lock = {f}
  /\ duplicates' = duplicates \cup { undup_name_map[f.name_undup] }
  /\ undup_name_map' = MapInsert(undup_name_map, f.name_undup, f)
  /\ map_lock' = NoOne
  /\ pc' = [pc EXCEPT ![f] = "promote_remove"]
  /\ UNCHANGED <<files, dup_lock, main_pc>>
  /\ UNCHANGED <<hash_vars, aux_vars>>

PromoteRemove_drops_key(f) ==
  /\ pc[f] = "promote_remove"
  /\ dup_lock = {f}
  /\ duplicates' = { d \in duplicates : d.name_undup # f.name_undup }
  /\ dup_lock' = NoOne
  /\ pc' = [pc EXCEPT ![f] = "done"]
  /\ UNCHANGED <<files, undup_name_map, map_lock, main_pc>>
  /\ UNCHANGED <<hash_vars, aux_vars>>

\* line 154: duplicates.remove(&fileinfo), then the guard is dropped
PromoteRemove(f) ==
  /\ pc[f] = "promote_remove"
  /\ dup_lock = {f}
  /\ duplicates' = duplicates \ {f}
  /\ dup_lock' = NoOne
  /\ pc' = [pc EXCEPT ![f] = "done"]
  /\ UNCHANGED <<files, undup_name_map, map_lock, main_pc>>
  /\ UNCHANGED <<hash_vars, aux_vars>>

DupLock_try(f) ==
  /\ pc[f] = "dup_lock"
  /\ IF dup_lock = NoOne
     THEN dup_lock' = {f} /\ pc' = [pc EXCEPT ![f] = "dup_insert"]
     ELSE dup_lock' = dup_lock /\ pc' = [pc EXCEPT ![f] = "done"]
  /\ UNCHANGED <<files, undup_name_map, duplicates, map_lock, main_pc>>
  /\ UNCHANGED <<hash_vars, aux_vars>>

\* line 158: duplicates.lock() after the map lock was dropped
DupLock(f) ==
  /\ pc[f] = "dup_lock"
  /\ dup_lock = NoOne
  /\ dup_lock' = {f}
  /\ pc' = [pc EXCEPT ![f] = "dup_insert"]
  /\ UNCHANGED <<files, undup_name_map, duplicates, map_lock, main_pc>>
  /\ UNCHANGED <<hash_vars, aux_vars>>

DupInsert_relocks_map(f) ==
  /\ pc[f] = "dup_insert"
  /\ dup_lock = {f}
  /\ map_lock = NoOne
  /\ duplicates' = duplicates \cup {f}
  /\ dup_lock' = NoOne
  /\ pc' = [pc EXCEPT ![f] = "done"]
  /\ UNCHANGED <<files, undup_name_map, map_lock, main_pc>>
  /\ UNCHANGED <<hash_vars, aux_vars>>

\* line 159: duplicates.insert(fileinfo), then the guard is dropped
DupInsert(f) ==
  /\ pc[f] = "dup_insert"
  /\ dup_lock = {f}
  /\ duplicates' = duplicates \cup {f}
  /\ dup_lock' = NoOne
  /\ pc' = [pc EXCEPT ![f] = "done"]
  /\ UNCHANGED <<files, undup_name_map, map_lock, main_pc>>
  /\ UNCHANGED <<hash_vars, aux_vars>>

\* lines 163-172: for_each has joined every closure; the pair is returned
DedupReturn ==
  /\ main_pc = "dedup_name_size"
  /\ \A f \in files : pc[f] = "done"
  /\ main_pc' = "classified"
  /\ UNCHANGED <<dedup_vars, hash_vars, aux_vars>>

NextDedup ==
  \/ \E f \in files : LockMap(f)
  \/ \E f \in files : Match(f)
  \/ \E f \in files : PromoteLock(f)
  \/ \E f \in files : Promote(f)
  \/ \E f \in files : PromoteRemove(f)
  \/ \E f \in files : DupLock(f)
  \/ \E f \in files : DupInsert(f)
  \/ DedupReturn

SpecDedup == InitDedup /\ [][NextDedup]_vars

\* the rayon pool keeps running closures while one can take a step
SpecDedupFair == InitDedup /\ [][NextDedup]_vars /\ WF_vars(NextDedup)

Classified == main_pc = "classified"

(* ---------------- the per-record algorithm, run sequentially ---------- *)
\* lines 133-160 applied to one record with no other worker running
classify_one(st, f) ==
  IF f.name_undup \notin DOMAIN st.originals
  THEN [ originals |-> MapInsert(st.originals, f.name_undup, f),
         duplicates |-> st.duplicates ]
  ELSE IF st.originals[f.name_undup].size # f.size
  THEN st
  ELSE IF IsShorter(f, st.originals[f.name_undup])
  THEN [ originals |-> MapInsert(st.originals, f.name_undup, f),
         duplicates |->
           (st.duplicates \cup { st.originals[f.name_undup] }) \ {f} ]
  ELSE [ originals |-> st.originals,
         duplicates |-> st.duplicates \cup {f} ]

RECURSIVE classify_all(_, _)
classify_all(st, order) ==
  IF order = << >> THEN st
  ELSE classify_all(classify_one(st, Head(order)), Tail(order))

\* one fixed visit order of a set of records
RECURSIVE VisitOrder(_)
VisitOrder(S) ==
  IF S = {} THEN << >>
  ELSE LET f == CHOOSE x \in S : TRUE IN <<f>> \o VisitOrder(S \ {f})

Result == [ originals |-> undup_name_map, duplicates |-> duplicates ]

Group(key) == { f \in files : f.name_undup = key }

Keys == { f.name_undup : f \in files }

SameSize(G) == \A a, b \in G : a.size = b.size

StrictlyShortest(s, G) ==
  s \in G /\ \A g \in G \ {s} : Len(s.name) < Len(g.name)

(* ------------------------------ the disk ------------------------------ *)
\* fs::read(path): Err, or Ok with the bytes of the file
Err == [ok |-> FALSE, bytes |-> 0]

Ok(bytes) == [ok |-> TRUE, bytes |-> bytes]

\* file contents: relative to an original, a file has the same bytes, other
\* bytes with the same hash, or bytes with another hash
Contents == {1, 2, 3}

FileResults == {Err} \cup { Ok(c) : c \in Contents }

\* the values of the content hash in the model: distinct contents may collide
HashValues == {0, 1}

\* gxhash::gxhash64(bytes, HASH_SEED): a function of the bytes alone
gxhash64(bytes) == bytes % Cardinality(HashValues)

(* ---------------------------- check_dup_hash -------------------------- *)
check_dup_hash_err_true(dup, hash) ==
  LET dup_file == fs[dup.path]
  IN  IF dup_file.ok THEN gxhash64(dup_file.bytes) = hash ELSE TRUE

\* lines 301-311
check_dup_hash(dup, hash) ==
  LET dup_file == fs[dup.path]
  IN  IF dup_file.ok THEN gxhash64(dup_file.bytes) = hash ELSE FALSE

(* ------------------------ main, lines 73-81 --------------------------- *)
\* the groups main builds from a classification of same-sized files named
\* "p", "p 2", "p 3", ... and "q", "q 2", "q 3", ...: at most MaxDups
\* duplicates in all groups together
HashKeys == <<"p", "q">>

Digits == <<"2", "3", "4">>

Orig(g) == FileInfo(<<HashKeys[g]>>, 1)

Dup(g, k) == FileInfo(<<HashKeys[g], " ", Digits[k]>>, 1)

RECURSIVE TotalDups(_, _)
TotalDups(k, n) == IF n = 0 THEN 0 ELSE k[n] + TotalDups(k, n - 1)

GroupMap(n, k) ==
  [ o \in { Orig(g) : g \in 1..n } |->
      LET g == CHOOSE h \in 1..n : Orig(h) = o
      IN  [ i \in 1..k[g] |-> Dup(g, i) ] ]

Range(seq) == { seq[i] : i \in DOMAIN seq }

PathsOf(m) ==
  { o.path : o \in DOMAIN m } \cup
  UNION { { d.path : d \in Range(m[o]) } : o \in DOMAIN m }

\* entry of check_hashes (lines 245-250): counter, channel, reporter spawned
CheckHashesEntry(m) ==
  /\ dupmap0 = m
  /\ count = 0
  /\ count_lock = NoOne
  /\ chan = << >>
  /\ send_alive = TRUE
  /\ wpc = [ o \in DOMAIN m |-> "read_orig" ]
  /\ widx = [ o \in DOMAIN m |-> 1 ]
  /\ orig_hash = [ o \in DOMAIN m |-> 0 ]
  /\ rpc = "loop"
  /\ processed = 0

\* main at line 83 with hashing enabled: the groups are built, the disk is in
\* any state, check_hashes has just been entered
InitHash ==
  /\ files = {}
  /\ undup_name_map = << >>
  /\ duplicates = {}
  /\ map_lock = NoOne
  /\ dup_lock = NoOne
  /\ pc = << >>
  /\ main_pc = "par_iter"
  /\ args \in [nohash : {FALSE}, delete : BOOLEAN]
  /\ \E n \in 0..Len(HashKeys) : \E k \in [1..n -> 1..MaxDups] :
       /\ TotalDups(k, n) <= MaxDups
       /\ filtered = GroupMap(n, k)
  /\ fs \in [PathsOf(filtered) -> FileResults]
  /\ calls = 1
  /\ CheckHashesEntry(filtered)
  /\ discarded = 0
  /\ removed = {}
  /\ lock_order = << >>
  /\ NameIdle

(* ----------------------------- check_hashes --------------------------- *)
orig_file_ok_always(orig_file) == TRUE

\* line 273: if let Ok(orig_file) = orig_file
orig_file_ok(orig_file) == orig_file.ok

\* lines 272-275: read the original; an unreadable original ends the closure
ReadOrig(o) ==
  /\ main_pc = "par_iter"
  /\ wpc[o] = "read_orig"
  /\ LET orig_file == fs[o.path]
     IN  IF orig_file_ok(orig_file)
         THEN /\ orig_hash' = [orig_hash EXCEPT ![o] = gxhash64(orig_file.bytes)]
              /\ wpc' = [wpc EXCEPT ![o] = "retain"]
         ELSE /\ wpc' = [wpc EXCEPT ![o] = "done"]
              /\ UNCHANGED orig_hash
  /\ UNCHANGED <<aux_vars, dedup_vars, main_pc, args, fs, filtered, dupmap0, calls, count,
                 count_lock, chan, send_alive, widx, rpc, processed, discarded,
                 removed>>

\* lines 278, 288: retain visits the next duplicate; a match is kept
RetainNext(o) ==
  /\ wpc[o] = "retain"
  /\ IF widx[o] > Len(filtered[o])
     THEN /\ wpc' = [wpc EXCEPT ![o] = "send_completed"]
          /\ UNCHANGED widx
     ELSE IF check_dup_hash(filtered[o][widx[o]], orig_hash[o])
     THEN /\ widx' = [widx EXCEPT ![o] = @ + 1]
          /\ UNCHANGED wpc
     ELSE /\ wpc' = [wpc EXCEPT ![o] = "send_refresh"]
          /\ UNCHANGED widx
  /\ UNCHANGED <<aux_vars, dedup_vars, main_pc, args, fs, filtered, dupmap0, calls, count,
                 count_lock, chan, send_alive, orig_hash, rpc, processed,
                 discarded, removed>>

can_send_rendezvous(ch) == Len(ch) < 1

\* line 247: channel() is unbounded, send never blocks on a full buffer
can_send(ch) == TRUE

\* line 283: send.send(HashingUpdate::Refresh) on the unbounded channel
SendRefresh(o) ==
  /\ wpc[o] = "send_refresh"
  /\ can_send(chan)
  /\ chan' = Append(chan, "Refresh")
  /\ wpc' = [wpc EXCEPT ![o] = "lock_count"]
  /\ UNCHANGED <<aux_vars, dedup_vars, main_pc, args, fs, filtered, dupmap0, calls, count,
                 count_lock, send_alive, widx, orig_hash, rpc, processed,
                 discarded, removed>>

\* line 284: count.lock()
LockCount(o) ==
  /\ wpc[o] = "lock_count"
  /\ count_lock = NoOne
  /\ count_lock' = {o}
  /\ wpc' = [wpc EXCEPT ![o] = "incr"]
  /\ UNCHANGED <<aux_vars, dedup_vars, main_pc, args, fs, filtered, dupmap0, calls, count,
                 chan, send_alive, widx, orig_hash, rpc, processed, discarded,
                 removed>>

add_one_lost(c) == c

\* line 285: *count += 1
add_one(c) == c + 1

RemoveAt(seq, i) == SubSeq(seq, 1, i - 1) \o SubSeq(seq, i + 1, Len(seq))

next_after_removal_skips(i) == i + 1

\* retain: the elements behind a removed one move up, the scan goes on with
\* the element that now has the removed one's index
next_after_removal(i) == i

\* lines 285-286: increment, unlock; the closure returns false and retain
\* removes the duplicate
IncrCount(o) ==
  /\ wpc[o] = "incr"
  /\ count_lock = {o}
  /\ count' = add_one(count)
  /\ count_lock' = NoOne
  /\ filtered' = [filtered EXCEPT ![o] = RemoveAt(@, widx[o])]
  /\ widx' = [widx EXCEPT ![o] = next_after_removal(@)]
  /\ wpc' = [wpc EXCEPT ![o] = "retain"]
  /\ UNCHANGED <<aux_vars, dedup_vars, main_pc, args, fs, dupmap0, calls, chan,
                 send_alive, orig_hash, rpc, processed, discarded, removed>>

\* line 291: send.send(HashingUpdate::Completed)
SendCompleted(o) ==
  /\ wpc[o] = "send_completed"
  /\ can_send(chan)
  /\ chan' = Append(chan, "Completed")
  /\ wpc' = [wpc EXCEPT ![o] = "done"]
  /\ UNCHANGED <<aux_vars, dedup_vars, main_pc, args, fs, filtered, dupmap0, calls, count,
                 count_lock, send_alive, widx, orig_hash, rpc, processed,
                 discarded, removed>>

par_iter_not_joined == TRUE

\* line 293: for_each returns when every closure has returned
par_iter_joined == \A o \in DOMAIN wpc : wpc[o] = "done"

\* line 295: send.send(HashingUpdate::Done)
SendDone ==
  /\ main_pc = "par_iter"
  /\ par_iter_joined
  /\ can_send(chan)
  /\ chan' = Append(chan, "Done")
  /\ main_pc' = "scope_join"
  /\ UNCHANGED <<aux_vars, dedup_vars, args, fs, filtered, dupmap0, calls, count,
                 count_lock, send_alive, wpc, widx, orig_hash, rpc, processed,
                 discarded, removed>>

Reporter_counts_refresh ==
  /\ rpc = "loop"
  /\ chan # << >> \/ ~send_alive
  /\ IF chan = << >>
     THEN /\ rpc' = "ended_none"
          /\ UNCHANGED <<chan, processed>>
     ELSE /\ chan' = Tail(chan)
          /\ processed' = IF Head(chan) \in {"Completed", "Refresh"}
                          THEN processed + 1 ELSE processed
          /\ rpc' = IF Head(chan) = "Done" THEN "ended_done" ELSE rpc
  /\ UNCHANGED <<aux_vars, dedup_vars, main_pc, args, fs, filtered, dupmap0, calls, count,
                 count_lock, send_alive, wpc, widx, orig_hash, discarded,
                 removed>>

\* lines 253-268: one turn of the reporting thread's loop; iter.next() blocks
\* while the channel is empty and a Sender is alive
Reporter ==
  /\ rpc = "loop"
  /\ chan # << >> \/ ~send_alive
  /\ IF chan = << >>
     THEN /\ rpc' = "ended_none"
          /\ UNCHANGED <<chan, processed>>
     ELSE /\ chan' = Tail(chan)
          /\ processed' = IF Head(chan) = "Completed"
                          THEN processed + 1 ELSE processed
          /\ rpc' = IF Head(chan) = "Done" THEN "ended_done" ELSE rpc
  /\ UNCHANGED <<aux_vars, dedup_vars, main_pc, args, fs, filtered, dupmap0, calls, count,
                 count_lock, send_alive, wpc, widx, orig_hash, discarded,
                 removed>>

\* lines 296-298: the scope joins the reporting thread; the function returns
\* the counter and its Sender is dropped
ScopeJoin ==
  /\ main_pc = "scope_join"
  /\ rpc \in {"ended_done", "ended_none"}
  /\ discarded' = count
  /\ send_alive' = FALSE
  /\ main_pc' = "returned"
  /\ UNCHANGED <<aux_vars, dedup_vars, args, fs, filtered, dupmap0, calls, count,
                 count_lock, chan, wpc, widx, orig_hash, rpc, processed,
                 removed>>

(* ------------------------ main, lines 85-117 -------------------------- *)
\* line 85: filtered.retain(|_, dups| !dups.is_empty())
RetainNonEmpty ==
  /\ main_pc = "returned"
  /\ filtered' = [ o \in { x \in DOMAIN filtered : filtered[x] # << >> } |->
                     filtered[o] ]
  /\ main_pc' = "delete"
  /\ UNCHANGED <<aux_vars, dedup_vars, args, fs, dupmap0, calls, count, count_lock, chan,
                 send_alive, wpc, widx, orig_hash, rpc, processed, discarded,
                 removed>>

Delete_with_originals ==
  /\ main_pc = "delete"
  /\ removed' = IF args.delete
                THEN PathsOf(filtered)
                ELSE removed
  /\ main_pc' = "exit"
  /\ UNCHANGED <<aux_vars, dedup_vars, args, fs, filtered, dupmap0, calls, count,
                 count_lock, chan, send_alive, wpc, widx, orig_hash, rpc,
                 processed, discarded>>

\* lines 109-117: with --delete, remove_file on every remaining duplicate
Delete ==
  /\ main_pc = "delete"
  /\ removed' = IF args.delete
                THEN UNION { { d.path : d \in Range(filtered[o]) } :
                             o \in DOMAIN filtered }
                ELSE removed
  /\ main_pc' = "exit"
  /\ UNCHANGED <<aux_vars, dedup_vars, args, fs, filtered, dupmap0, calls, count,
                 count_lock, chan, send_alive, wpc, widx, orig_hash, rpc,
                 processed, discarded>>

NextHash ==
  \/ \E o \in DOMAIN wpc : ReadOrig(o)
  \/ \E o \in DOMAIN wpc : RetainNext(o)
  \/ \E o \in DOMAIN wpc : SendRefresh(o)
  \/ \E o \in DOMAIN wpc : LockCount(o)
  \/ \E o \in DOMAIN wpc : IncrCount(o)
  \/ \E o \in DOMAIN wpc : SendCompleted(o)
  \/ SendDone
  \/ Reporter
  \/ ScopeJoin
  \/ RetainNonEmpty
  \/ Delete

SpecHash == InitHash /\ [][NextHash]_vars

\* the closure of one group (lines 270-293)
Worker(o) ==
  /\ o \in DOMAIN wpc
  /\ \/ ReadOrig(o)
     \/ RetainNext(o)
     \/ SendRefresh(o)
     \/ LockCount(o)
     \/ IncrCount(o)
     \/ SendCompleted(o)

\* the rayon pool runs every closure; nothing is assumed of the reporting
\* thread, which may take no step at all.  The sends do not depend on the
\* delete flag nor on two different contents sharing a hash: the disk holds
\* unreadable files and two contents with different hashes.
InitHashWorkers ==
  /\ InitHash
  /\ ~args.delete
  /\ \A p \in DOMAIN fs : fs[p] \in {Err, Ok(1), Ok(2)}

SpecHashWorkers ==
  /\ InitHashWorkers
  /\ [][NextHash]_vars
  /\ \A g \in 1..Len(HashKeys) : WF_vars(Worker(Orig(g)))

\* a second call of check_hashes on the mapping the first call left, the disk
\* unchanged
SecondCall ==
  /\ main_pc = "returned"
  /\ calls = 1
  /\ calls' = 2
  /\ main_pc' = "par_iter"
  /\ dupmap0' = filtered
  /\ count' = 0
  /\ count_lock' = NoOne
  /\ chan' = << >>
  /\ send_alive' = TRUE
  /\ wpc' = [ o \in DOMAIN filtered |-> "read_orig" ]
  /\ widx' = [ o \in DOMAIN filtered |-> 1 ]
  /\ orig_hash' = [ o \in DOMAIN filtered |-> 0 ]
  /\ rpc' = "loop"
  /\ processed' = 0
  /\ UNCHANGED <<aux_vars, dedup_vars, args, fs, filtered, discarded, removed>>

NextTwice ==
  \/ \E o \in DOMAIN wpc : ReadOrig(o)
  \/ \E o \in DOMAIN wpc : RetainNext(o)
  \/ \E o \in DOMAIN wpc : SendRefresh(o)
  \/ \E o \in DOMAIN wpc : LockCount(o)
  \/ \E o \in DOMAIN wpc : IncrCount(o)
  \/ \E o \in DOMAIN wpc : SendCompleted(o)
  \/ SendDone
  \/ Reporter
  \/ ScopeJoin
  \/ SecondCall

InitTwice == InitHash /\ ~args.delete

SpecTwice == InitTwice /\ [][NextTwice]_vars

(* ------------------------- main, lines 63-117 ------------------------- *)
\* the values of --filter; "None" is the absent option
Filters == {"None", "Notwo", "Onlytwo", "Onlynum"}

\* lines 213-222
get_filter(filter_arg, file) ==
  CASE filter_arg = "Notwo" -> ~ends_with(file.name, <<" ", "2">>)
    [] filter_arg = "Onlytwo" -> ends_with(file.name, <<" ", "2">>)
    [] filter_arg = "Onlynum" ->
         \/ ends_with(file.name, <<" ", "2">>)
         \/ ends_with(file.name, <<" ", "3">>)
         \/ ends_with(file.name, <<" ", "4">>)
    [] filter_arg = "None" -> TRUE

\* the directory trees main is run on: copies of one file "p"
MainFileSets ==
  { S \in FileSets :
      \A f \in S : f.name \in { <<"p">>, <<"p", " ", "2">>, <<"p", " ", "3">> } }

\* lines 63-67: the flags are parsed, the records are collected and
\* dedup_name_size has started a closure per record
InitMain ==
  /\ files \in MainFileSets
  /\ undup_name_map = << >>
  /\ duplicates = {}
  /\ map_lock = NoOne
  /\ dup_lock = NoOne
  /\ pc = [ f \in files |-> "lock_map" ]
  /\ main_pc = "dedup_name_size"
  /\ args \in [filter : Filters, nohash : BOOLEAN, delete : BOOLEAN]
  /\ fs = << >>
  /\ filtered = << >>
  /\ dupmap0 = << >>
  /\ calls = 0
  /\ count = 0
  /\ count_lock = NoOne
  /\ chan = << >>
  /\ send_alive = FALSE
  /\ wpc = << >>
  /\ widx = << >>
  /\ orig_hash = << >>
  /\ rpc = "unspawned"
  /\ processed = 0
  /\ discarded = 0
  /\ removed = {}
  /\ lock_order = << >>
  /\ NameIdle

\* the orders in which a HashSet can yield the members of S
Orders(S) == { s \in [1..Cardinality(S) -> S] : Range(s) = S }

\* lines 73-78: the duplicates that pass the filter, grouped under the
\* original of their normalized name, in the order the set yields them
into_group_map(passing) ==
  LET orig_of(dup) == undup_name_map[dup.name_undup]
      keys == { orig_of(dup) : dup \in passing }
      members(o) == { dup \in passing : orig_of(dup) = o }
  IN  { m \in [keys -> UNION { Orders(members(o)) : o \in keys }] :
          \A o \in keys : Range(m[o]) = members(o) }

\* lines 71-83: filter and group; with hashing enabled check_hashes is
\* entered on the disk as it is then, otherwise main goes on to the deletion
FilterAndGroup ==
  /\ main_pc = "classified"
  /\ filtered' \in
       into_group_map({ dup \in duplicates : get_filter(args.filter, dup) })
  /\ IF ~args.nohash
     THEN /\ main_pc' = "par_iter"
          /\ fs' \in [PathsOf(filtered') -> FileResults]
          /\ calls' = 1
          /\ dupmap0' = filtered'
          /\ send_alive' = TRUE
          /\ wpc' = [ o \in DOMAIN filtered' |-> "read_orig" ]
          /\ widx' = [ o \in DOMAIN filtered' |-> 1 ]
          /\ orig_hash' = [ o \in DOMAIN filtered' |-> 0 ]
          /\ rpc' = "loop"
     ELSE /\ main_pc' = "delete"
          /\ UNCHANGED <<fs, calls, dupmap0, send_alive, wpc, widx, orig_hash,
                         rpc>>
  /\ UNCHANGED <<dedup_vars, aux_vars, args, count, count_lock, chan,
                 processed, discarded, removed>>

NextMain ==
  \/ \E f \in files : LockMap(f)
  \/ \E f \in files : Match(f)
  \/ \E f \in files : PromoteLock(f)
  \/ \E f \in files : Promote(f)
  \/ \E f \in files : PromoteRemove(f)
  \/ \E f \in files : DupLock(f)
  \/ \E f \in files : DupInsert(f)
  \/ DedupReturn
  \/ FilterAndGroup
  \/ \E o \in DOMAIN wpc : ReadOrig(o)
  \/ \E o \in DOMAIN wpc : RetainNext(o)
  \/ \E o \in DOMAIN wpc : SendRefresh(o)
  \/ \E o \in DOMAIN wpc : LockCount(o)
  \/ \E o \in DOMAIN wpc : IncrCount(o)
  \/ \E o \in DOMAIN wpc : SendCompleted(o)
  \/ SendDone
  \/ Reporter
  \/ ScopeJoin
  \/ RetainNonEmpty
  \/ Delete

SpecMain == InitMain /\ [][NextMain]_vars

(* --------------------- get_undestroyed_name, called ------------------- *)
\* the characters of the display names given to get_undestroyed_name
Alphabet == {"a", " ", "1", "2", "3", "4", "(", ")"}

DisplayNames == UNION { [1..n -> Alphabet] : n \in 0..MaxNameLen }

InitName ==
  /\ files = {}
  /\ undup_name_map = << >>
  /\ duplicates = {}
  /\ map_lock = NoOne
  /\ dup_lock = NoOne
  /\ pc = << >>
  /\ main_pc = "get_undestroyed_name"
  /\ HashIdle
  /\ lock_order = << >>
  /\ arg_name \in DisplayNames
  /\ ret_name = << >>

\* line 197: get_undestroyed_name(&name)
CallName ==
  /\ main_pc = "get_undestroyed_name"
  /\ ret_name' = get_undestroyed_name(arg_name)
  /\ main_pc' = "name_returned"
  /\ UNCHANGED <<dedup_vars, hash_vars, lock_order, arg_name>>

NextName == CallName

SpecName == InitName /\ [][NextName]_vars

(* ------------------------------ claims -------------------------------- *)

\* C1: when dedup_name_size returns, every input record is either the value
\* of an originals entry or a member of duplicates, never both, never neither.
C1_Partition ==
  Classified =>
    \A f \in files :
      (f \in MapValues(undup_name_map)) # (f \in duplicates)

\* C2: two input records with the same normalized name and different sizes
\* are both originals after classification, and neither is in duplicates as a
\* duplicate of the other.
C2_DifferentSizeBothOriginals ==
  Classified =>
    \A a, b \in files :
      (a.name_undup = b.name_undup /\ a.size # b.size) =>
        /\ a \in MapValues(undup_name_map)
        /\ b \in MapValues(undup_name_map)
        /\ ~(a \in duplicates /\ undup_name_map[a.name_undup] = b)

\* C3: when the records of a normalized name all have one size and one of
\* them has the strictly shortest display name, that record is the original
\* of the name after classification and every other record of the name is in
\* duplicates, whatever the interleaving.
C3_ShortestIsOriginal ==
  Classified =>
    \A key \in Keys : \A s \in Group(key) :
      (SameSize(Group(key)) /\ StrictlyShortest(s, Group(key))) =>
        /\ undup_name_map[key] = s
        /\ Group(key) \ {s} \subseteq duplicates
        /\ s \notin duplicates

C3_Witness ==
  /\ Classified
  /\ \E key \in Keys : \E s \in Group(key) :
       /\ Cardinality(Group(key)) >= 3
       /\ SameSize(Group(key))
       /\ StrictlyShortest(s, Group(key))
       /\ undup_name_map[key] = s

NoEqualLengths ==
  \A a, b \in files :
    (a.name_undup = b.name_undup /\ a # b) => Len(a.name) # Len(b.name)

\* C4: for an input in which no two records of one normalized name have
\* display names of equal length, every interleaving yields the originals map
\* and duplicates set of the sequential run in one fixed visit order (that
\* run is itself one of the interleavings, so a difference is two results
\* for one input).
C4_Deterministic ==
  (Classified /\ NoEqualLengths) =>
    Result = classify_all([originals |-> << >>, duplicates |-> {}],
                          VisitOrder(files))

Returned == main_pc = "returned"

Readable(f) == fs[f.path].ok

\* the duplicate's file is readable and hashes to the hash of its original
Verified(d, o) ==
  /\ fs[o.path].ok
  /\ fs[d.path].ok
  /\ gxhash64(fs[d.path].bytes) = gxhash64(fs[o.path].bytes)

RECURSIVE RemovedFrom(_)
\* the number of duplicates the groups S have lost since entry
RemovedFrom(S) ==
  IF S = {} THEN 0
  ELSE LET o == CHOOSE x \in S : TRUE
       IN  (Len(dupmap0[o]) - Len(filtered[o])) + RemovedFrom(S \ {o})

\* C5: with hashing enabled and --delete, every path passed to remove_file is
\* a duplicate that was read and hashed to the hash of its readable original;
\* nothing of a group with an unreadable original is deleted.
C5_OnlyVerifiedDeleted ==
  \A o \in DOMAIN dupmap0 : \A d \in Range(dupmap0[o]) :
    d.path \in removed => Verified(d, o)

\* C6: after check_hashes a group with a readable original holds exactly its
\* initial duplicates that are readable and hash to the original's hash, in
\* their initial order; an unreadable duplicate of such a group is removed and
\* is never passed to remove_file.
C6_ReadableGroupFiltered ==
  \A o \in DOMAIN dupmap0 :
    Readable(o) =>
      /\ Returned =>
           filtered[o] = SelectSeq(dupmap0[o], LAMBDA d : Verified(d, o))
      /\ \A d \in Range(dupmap0[o]) : ~Readable(d) => d.path \notin removed

C6_Witness ==
  /\ Returned
  /\ \E o \in DOMAIN dupmap0 :
       /\ Readable(o)
       /\ Len(dupmap0[o]) = 2
       /\ ~Readable(dupmap0[o][1])
       /\ Verified(dupmap0[o][2], o)
       /\ fs[dupmap0[o][2].path] # fs[o.path]
       /\ filtered[o] = <<dupmap0[o][2]>>

\* C7: the value check_hashes returns is the number of duplicates removed
\* from all groups together, whatever the interleaving of the workers.
C7_CountIsRemoved ==
  Returned => discarded = RemovedFrom(DOMAIN dupmap0)

C7_Witness ==
  /\ Returned
  /\ discarded >= 2
  /\ Cardinality({ o \in DOMAIN dupmap0 : Len(filtered[o]) < Len(dupmap0[o]) }) >= 2

\* C8: a group whose original cannot be read keeps its duplicate list as it
\* was at entry, and the returned count is the number of duplicates removed
\* from the other groups alone.
C8_UnreadableOriginalUntouched ==
  Returned =>
    /\ \A o \in DOMAIN dupmap0 : ~Readable(o) => filtered[o] = dupmap0[o]
    /\ discarded = RemovedFrom({ o \in DOMAIN dupmap0 : Readable(o) })

C8_Witness ==
  /\ Returned
  /\ discarded >= 1
  /\ \E o \in DOMAIN dupmap0 :
       /\ ~Readable(o)
       /\ \E d \in Range(dupmap0[o]) : ~Readable(d)

\* C9: a second call of check_hashes on the mapping left by the first, with
\* the disk unchanged, removes no duplicate and returns 0.
C9_SecondCallRemovesNothing ==
  calls = 2 =>
    /\ filtered = dupmap0
    /\ count = 0
    /\ Returned => discarded = 0

C9_Witness ==
  /\ calls = 2
  /\ Returned
  /\ PathsOf(filtered) # DOMAIN fs
  /\ \E o \in DOMAIN filtered : Readable(o) /\ filtered[o] # << >>

AllWorkersDone == \A o \in DOMAIN wpc : wpc[o] = "done"

DoneAt(i) == i \in DOMAIN chan /\ chan[i] = "Done"

\* C10: Done is sent once, after every hashing worker has completed; it is
\* the last event of the channel; the reporting thread receives every other
\* event before it, ends on receiving it and never ends on the closed stream.
C10_DoneIsLast ==
  /\ \A i \in DOMAIN chan : DoneAt(i) => i = Len(chan)
  /\ (\E i \in DOMAIN chan : DoneAt(i)) =>
       AllWorkersDone /\ main_pc = "scope_join" /\ rpc = "loop"
  /\ main_pc = "par_iter" => rpc = "loop"
  /\ (main_pc = "scope_join" /\ rpc = "loop") => DoneAt(Len(chan))
  /\ rpc # "ended_none"
  /\ rpc = "ended_done" => chan = << >> /\ AllWorkersDone
  /\ main_pc \in {"returned", "delete", "exit"} => rpc = "ended_done"

C10_Witness ==
  /\ Returned
  /\ rpc = "ended_done"
  /\ processed >= 2
  /\ count >= 1

\* a worker that has not finished can take its next step, or waits for the
\* count mutex held by another worker; it never waits for the reporter
WorkersNotWaiting ==
  \A o \in DOMAIN wpc :
    wpc[o] # "done" =>
      \/ ENABLED Worker(o)
      \/ wpc[o] = "lock_count" /\ count_lock # NoOne /\ count_lock # {o}

\* C11: a hashing worker never waits for the reporting thread: its sends are
\* enabled whatever the number of unconsumed events, and every worker
\* finishes its group even if the reporter takes no step; check_hashes has
\* returned only when the workers are done and the reporter has consumed Done.
C11_WorkersNeverWait ==
  /\ [](WorkersNotWaiting)
  /\ [](Returned => (AllWorkersDone /\ rpc = "ended_done" /\ chan = << >>))
  /\ <>AllWorkersDone

C11_Witness ==
  /\ AllWorkersDone
  /\ rpc = "loop"
  /\ processed = 0
  /\ Len(chan) >= 3
  /\ main_pc = "par_iter"

Originals == MapValues(undup_name_map)

IndexOf(seq, x) == CHOOSE i \in DOMAIN seq : seq[i] = x

\* C14: the pair returned is the result of the per-record algorithm applied
\* one record at a time in the order in which the closures locked the map.
C14_Linearizable ==
  Classified =>
    Result = classify_all([originals |-> << >>, duplicates |-> {}], lock_order)

\* a record waits to be inserted into duplicates, the map lock released,
\* while a record that locked the map after it has become the original
C14_Witness ==
  \E f, g \in files :
    /\ pc[f] = "dup_lock"
    /\ pc[g] \in {"promote_remove", "done"}
    /\ f.name_undup = g.name_undup
    /\ undup_name_map[g.name_undup] = g
    /\ IndexOf(lock_order, f) < IndexOf(lock_order, g)

HitsOtherSize(f) ==
  /\ f.name_undup \in DOMAIN undup_name_map
  /\ undup_name_map[f.name_undup].size # f.size

InNeither(f) == f \notin Originals /\ f \notin duplicates

\* C15: a record that finds an original of another size under its name
\* leaves the originals map and the duplicates set as they are, and is added
\* to neither, then or later.
C15_SizeMismatchFrame ==
  [][ \A f \in files :
        /\ (pc[f] = "match" /\ pc'[f] # "match" /\ HitsOtherSize(f)) =>
             /\ undup_name_map' = undup_name_map
             /\ duplicates' = duplicates
             /\ pc'[f] = "done"
             /\ InNeither(f)'
        /\ (pc[f] = "done" /\ InNeither(f)) => InNeither(f)' ]_vars

C15_Witness ==
  \E f \in files : pc[f] = "done" /\ HitsOtherSize(f) /\ InNeither(f)

\* C16: a closure never locks the map while it holds the duplicates lock;
\* under fair scheduling dedup_name_size returns, and by then every record
\* has been processed exactly once.
C16_NoDeadlock ==
  /\ [](\A f \in files : dup_lock = {f} => pc[f] \notin {"lock_map", "match"})
  /\ [](Classified =>
          /\ \A f \in files : pc[f] = "done"
          /\ Len(lock_order) = Cardinality(files)
          /\ Range(lock_order) = files
          /\ map_lock = NoOne /\ dup_lock = NoOne)
  /\ <>Classified

C16_Witness ==
  \E f, g \in files :
    /\ pc[f] = "promote_lock"
    /\ map_lock = {f}
    /\ dup_lock = {g}
    /\ pc[g] = "dup_insert"

FirstClaim(key) ==
  lock_order[CHOOSE i \in DOMAIN lock_order :
               /\ lock_order[i].name_undup = key
               /\ \A j \in 1..(i - 1) : lock_order[j].name_undup # key]

\* C17: after classification every duplicate has an original under its
\* normalized name, of the same size and with a name no longer than its own;
\* at every moment the original of a name has the size of the first record
\* that claimed the name.
C17_DuplicateHasOriginal ==
  /\ Classified =>
       \A d \in duplicates :
         /\ d.name_undup \in DOMAIN undup_name_map
         /\ undup_name_map[d.name_undup].size = d.size
         /\ Len(undup_name_map[d.name_undup].name) <= Len(d.name)
  /\ \A key \in DOMAIN undup_name_map :
       undup_name_map[key].size = FirstClaim(key).size

C17_Witness ==
  /\ Classified
  /\ \E key \in DOMAIN undup_name_map :
       /\ undup_name_map[key] # FirstClaim(key)
       /\ FirstClaim(key) \in duplicates
       /\ \E f \in files : f.name_undup = key /\ f.size # FirstClaim(key).size

\* C19: during classification duplicates only grows, a record in it never
\* becomes the value of an originals entry, and the record whose promotion
\* ends with duplicates.remove is not in duplicates when the call is made.
C19_DuplicatesOnlyGrow ==
  /\ [][ /\ duplicates \subseteq duplicates'
         /\ \A d \in duplicates : d \notin Originals' ]_vars
  /\ [](\A f \in files : pc[f] = "promote_remove" => f \notin duplicates)

C19_Witness ==
  \E f \in files :
    /\ pc[f] = "promote_remove"
    /\ Cardinality(duplicates) >= 2

NumberSuffixes == { <<" ", "2">>, <<" ", "3">>, <<" ", "4">> }

ParenSuffixes ==
  { <<" ", "(", "1", ")">>, <<" ", "(", "2", ")">>, <<" ", "(", "3", ")">> }

\* name is some prefix followed by one of the suffixes S
EndsIn(name, S) ==
  \E s \in S : \E k \in 0..Len(name) : name = SubSeq(name, 1, k) \o s

IsPrefix(a, b) == Len(a) <= Len(b) /\ \A i \in 1..Len(a) : a[i] = b[i]

\* C13: get_undestroyed_name returns the name without its last 2 characters
\* if it ends in " 2", " 3" or " 4", else without its last 4 characters if it
\* ends in " (1)", " (2)" or " (3)", else the name; one suffix is stripped
\* and the result is a prefix of the name.
C13_StripsOneSuffix ==
  main_pc = "name_returned" =>
    /\ IsPrefix(ret_name, arg_name)
    /\ Len(ret_name) =
         IF EndsIn(arg_name, NumberSuffixes) THEN Len(arg_name) - 2
         ELSE IF EndsIn(arg_name, ParenSuffixes) THEN Len(arg_name) - 4
         ELSE Len(arg_name)

\* a name with two copy suffixes loses the last one only
C13_Witness ==
  /\ main_pc = "name_returned"
  /\ EndsIn(arg_name, NumberSuffixes)
  /\ EndsIn(ret_name, NumberSuffixes \cup ParenSuffixes)
  /\ Len(ret_name) = Len(arg_name) - 2

\* the number of events ev waiting in the channel
InFlight(ev) == Cardinality({ i \in DOMAIN chan : chan[i] = ev })

ReadableGroups == { o \in DOMAIN dupmap0 : Readable(o) }

\* the reporting thread takes the head of the channel
Receives(ev) == chan # << >> /\ chan' = Tail(chan) /\ Head(chan) = ev

\* C20: processed never exceeds the number of groups; it grows by exactly one
\* when a Completed is received and is unchanged by Refresh, Done and every
\* other step; a group with a readable original sends one Completed, as its
\* last event, a group with an unreadable original sends nothing; when the
\* reporting thread has ended, processed is the number of groups with a
\* readable original.
C20_ProcessedCount ==
  /\ [](processed <= Cardinality(DOMAIN dupmap0))
  /\ [][ IF Receives("Completed")
         THEN processed' = processed + 1
         ELSE processed' = processed ]_vars
  /\ [](processed + InFlight("Completed") =
          Cardinality({ o \in ReadableGroups : wpc[o] = "done" }))
  /\ [][ \A o \in DOMAIN wpc :
           /\ wpc[o] = "done" => wpc'[o] = "done"
           /\ ~Readable(o) =>
                (wpc[o] \in {"read_orig", "done"} /\ (wpc'[o] # wpc[o] =>
                   chan' = chan)) ]_vars
  /\ [][ Len(chan') > Len(chan) /\ chan'[Len(chan')] = "Refresh" =>
           \E o \in ReadableGroups :
             wpc[o] = "send_refresh" /\ wpc'[o] = "lock_count" ]_vars
  /\ [](rpc \in {"ended_done", "ended_none"} =>
          processed = Cardinality(ReadableGroups))

\* the reporter has ended after a run with a readable group that discarded
\* a duplicate and a group whose original could not be read
C20_Witness ==
  /\ rpc = "ended_done"
  /\ main_pc = "scope_join"
  /\ Cardinality(DOMAIN dupmap0) = 2
  /\ processed = 1
  /\ count >= 1

OriginalPaths == { o.path : o \in Originals }

DuplicatePaths == { d.path : d \in duplicates }

\* C18: whatever the filter, --nohash and --delete, every path passed to
\* remove_file is the path of a member of duplicates and none is the path of
\* a value of the originals map; the original of every group stays on disk.
C18_NoOriginalDeleted ==
  /\ removed \subseteq DuplicatePaths
  /\ removed \cap OriginalPaths = {}
  /\ \A o \in DOMAIN filtered : o \in Originals /\ o.path \notin removed

\* main has ended after deleting a hash-verified duplicate under a filter
\* that kept another duplicate out of the groups
C18_Witness ==
  /\ main_pc = "exit"
  /\ args.delete
  /\ ~args.nohash
  /\ args.filter = "Onlytwo"
  /\ removed # {}
  /\ DuplicatePaths \ removed # {}
  /\ OriginalPaths # {}

====
